---- MODULE Spec2Model ----
(***************************************************************************)
(* State-machine model of the Tacotron2 training example                   *)
(* (tacotron2/train.py) and of the configuration defaults                  *)
(* (waveflow/config.py).                                                   *)
(*                                                                         *)
(* One process per rank.  The entry point merges the overrides into the    *)
(* defaults, freezes the tree and calls main, which either spawns nprocs   *)
(* workers or runs the body in the current process.  Every worker sets up  *)
(* its model and loaders and then runs the training loop: train_batch,     *)
(* and valid every valid_interval iterations.                              *)
(***************************************************************************)
EXTENDS Integers, Sequences, FiniteSets, TLC

(***************************************************************************)
(* Bounds of the model.                                                    *)
(***************************************************************************)
MaxProcs == 2      \* largest --nprocs tried
MaxIter == 2       \* cap on the iteration counter (max_iteration is 3000000)
MaxExtra == 1      \* training examples more or fewer than one global batch
MaxFileKeys == 1   \* most keys a config file overrides
MaxOpts == 1       \* most key/value pairs in --opts
MaxCopies == 3     \* most trees get_cfg_defaults hands out
MaxWrites == 2     \* most writes the holders of those trees make

(***************************************************************************)
(* Program constants: the compiled defaults of config.py.                  *)
(***************************************************************************)
batch_size == 8
valid_size == 64
valid_interval == 1000
max_iteration == 3000000

\* the values of the default tree (the keys with float values are left out)
_C == [data |-> [batch_size |-> batch_size, valid_size |-> valid_size],
       model |-> [upsample_factors |-> <<16, 16>>, n_flows |-> 8,
                  kernel_size |-> <<3, 3>>],
       training |-> [valid_interval |-> valid_interval,
                     max_iteration |-> max_iteration]]

(***************************************************************************)
(* The default tree as objects.  A heap is a sequence of objects and the   *)
(* address of an object is its index.  A CfgNode holds named slots and a   *)
(* list holds items; a slot holds a number or the address of an object.    *)
(***************************************************************************)
Num(n) == [ref |-> FALSE, to |-> n]
Ref(id) == [ref |-> TRUE, to |-> id]
CN(slots) == [kind |-> "node", slots |-> slots, items |-> << >>]
List(items) == [kind |-> "list", slots |-> [k \in {} |-> Num(0)],
                items |-> items]

\* the address of the module-level tree _C
_C_root == 1

\* the heap once config.py is imported
_C_heap ==
    << CN([data |-> Ref(2), model |-> Ref(3), training |-> Ref(4)]),
       CN([batch_size |-> Num(batch_size), valid_size |-> Num(valid_size)]),
       CN([upsample_factors |-> Ref(5), n_flows |-> Num(8),
           kernel_size |-> Ref(6)]),
       CN([valid_interval |-> Num(valid_interval),
           max_iteration |-> Num(max_iteration)]),
       List(<<16, 16>>),
       List(<<3, 3>>) >>

\* the values held by the tree at address id
RECURSIVE Value(_, _)
Value(h, id) ==
    IF h[id].kind = "list" THEN h[id].items
    ELSE [k \in DOMAIN h[id].slots |->
             IF h[id].slots[k].ref THEN Value(h, h[id].slots[k].to)
             ELSE h[id].slots[k].to]

\* the addresses of the objects of the tree at address id
RECURSIVE Reach(_, _)
Reach(h, id) ==
    {id} \cup UNION {Reach(h, h[id].slots[k].to) :
                        k \in {x \in DOMAIN h[id].slots : h[id].slots[x].ref}}

\* copy.deepcopy: a new object for the object at id and for every object
\* under it; gives the new heap and the address of the copy
RECURSIVE deepcopy(_, _)
RECURSIVE deepcopy_slots(_, _, _)
deepcopy_slots(h, obj, todo) ==
    IF todo = {} THEN <<h, obj>>
    ELSE LET k == CHOOSE x \in todo : TRUE
         IN IF obj.slots[k].ref
            THEN LET res == deepcopy(h, obj.slots[k].to)
                 IN deepcopy_slots(res[1],
                                   [obj EXCEPT !.slots[k] = Ref(res[2])],
                                   todo \ {k})
            ELSE deepcopy_slots(h, obj, todo \ {k})

deepcopy(h, id) ==
    LET res == deepcopy_slots(h, h[id], DOMAIN h[id].slots)
        h2 == Append(res[1], res[2])
    IN <<h2, Len(h2)>>

\* CfgNode.clone
clone(h, id) == deepcopy(h, id)

\* variant: the module-level tree itself is handed out
get_cfg_defaults_Shared(h) == <<h, _C_root>>

\* return _C.clone()
get_cfg_defaults(h) == clone(h, _C_root)

Sections == {"data", "training"}
KeysOf(s) == IF s = "data" THEN {"batch_size", "valid_size"}
             ELSE {"valid_interval", "max_iteration"}
Keys == {<<"data", "batch_size">>, <<"data", "valid_size">>,
         <<"training", "valid_interval">>, <<"training", "max_iteration">>}

(***************************************************************************)
(* Inputs.  A config file is a partial map from keys to values; --opts is   *)
(* a flat list key, value, key, value, ...                                 *)
(***************************************************************************)
\* Python's None, and a value that is present
None == << >>
Some(x) == <<x>>
\* args.config when no --config is given
NoFile == << >>

FileValue(key) == CASE key = <<"data", "batch_size">> -> 3
                    [] key = <<"data", "valid_size">> -> 3
                    [] key = <<"training", "valid_interval">> -> 1
                    [] key = <<"training", "max_iteration">> -> 2

OptsValue(key) == CASE key = <<"data", "batch_size">> -> 2
                    [] key = <<"data", "valid_size">> -> 5
                    [] key = <<"training", "valid_interval">> -> 2
                    [] key = <<"training", "max_iteration">> -> 1

KeyOrder == << <<"data", "batch_size">>, <<"data", "valid_size">>,
               <<"training", "valid_interval">>,
               <<"training", "max_iteration">> >>

ConfigFiles ==
    {[key \in S |-> FileValue(key)] :
        S \in {T \in SUBSET Keys : T # {} /\ Cardinality(T) <= MaxFileKeys}}

RECURSIVE OptsList(_, _)
OptsList(S, i) ==
    IF i > Len(KeyOrder) THEN << >>
    ELSE IF KeyOrder[i] \in S
         THEN <<KeyOrder[i], OptsValue(KeyOrder[i])>> \o OptsList(S, i + 1)
         ELSE OptsList(S, i + 1)

OptsLists ==
    {OptsList(S, 1) : S \in {T \in SUBSET Keys : Cardinality(T) <= MaxOpts}}

(***************************************************************************)
(* ConfigTree operations (yacs CfgNode).                                   *)
(***************************************************************************)
SetKey(cfg, key, v) == [cfg EXCEPT ![key[1]][key[2]] = v]

RECURSIVE MergeKeys(_, _, _)
MergeKeys(cfg, file, todo) ==
    IF todo = {} THEN cfg
    ELSE LET key == CHOOSE k \in todo : TRUE
         IN MergeKeys(SetKey(cfg, key, file[key]), file, todo \ {key})

merge_from_file(cfg, file) == MergeKeys(cfg, file, DOMAIN file)

RECURSIVE merge_from_list(_, _)
merge_from_list(cfg, cfg_list) ==
    IF Len(cfg_list) < 2 THEN cfg
    ELSE merge_from_list(SetKey(cfg, cfg_list[1], cfg_list[2]),
                         SubSeq(cfg_list, 3, Len(cfg_list)))

(***************************************************************************)
(* Datasets and loaders.  An example is its index in the dataset.          *)
(***************************************************************************)
LJSpeech(n) == [i \in 1..n |-> i - 1]

\* dataset.split: the first valid_size examples, and the rest
split(ds, first_size) ==
    <<SubSeq(ds, 1, first_size), SubSeq(ds, first_size + 1, Len(ds))>>

\* the order RandomState(epoch).shuffle gives: one permutation per epoch
Shuffle(seq, ep) ==
    IF Len(seq) = 0 THEN seq
    ELSE [i \in 1..Len(seq) |-> seq[((i - 1 + ep) % Len(seq)) + 1]]

\* consecutive groups of bsize samples; the short tail kept unless drop_last
Batches(seq, bsize, drop_last) ==
    LET n == Len(seq) \div bsize
        full == [i \in 1..n |-> SubSeq(seq, (i - 1) * bsize + 1, i * bsize)]
        rest == SubSeq(seq, n * bsize + 1, Len(seq))
    IN IF ~drop_last /\ Len(rest) > 0 THEN Append(full, rest) ELSE full

DataLoader(ds, bsize, shuffle, drop_last, ep) ==
    Batches(IF shuffle THEN Shuffle(ds, ep) ELSE ds, bsize, drop_last)

CeilDiv(a, b) == (a + b - 1) \div b

\* variant: every nranks-th sample, without padding to a multiple of nranks
DistributedBatchSampler_Unpadded(ds, bsize, shuffle, drop_last, nranks, local_rank, ep) ==
    LET indices == IF shuffle THEN Shuffle(ds, ep) ELSE ds
        Mine(p) == p % nranks = local_rank
        positions == SelectSeq([i \in 1..Len(ds) |-> i - 1], Mine)
        subsampled == [i \in 1..Len(positions) |-> indices[positions[i] + 1]]
    IN Batches(subsampled, bsize, drop_last)

\* the samples of one rank: pad to a multiple of nranks, shuffle, then take
\* every nranks-th block of bsize samples and a share of the tail
DistributedBatchSampler(ds, bsize, shuffle, drop_last, nranks, local_rank, ep) ==
    LET num_samples == CeilDiv(Len(ds), nranks)
        total_size == num_samples * nranks
        padded == [i \in 1..total_size |-> ds[((i - 1) % Len(ds)) + 1]]
        indices == IF shuffle THEN Shuffle(padded, ep) ELSE padded
        last_batch_size == total_size % (bsize * nranks)
        last_local_batch_size == last_batch_size \div nranks
        body == total_size - last_batch_size
        Mine(p) ==
            IF p < body THEN (p \div bsize) % nranks = local_rank
            ELSE (p - body) \div last_local_batch_size = local_rank
        positions == SelectSeq([i \in 1..total_size |-> i - 1], Mine)
        subsampled == [i \in 1..Len(positions) |-> indices[positions[i] + 1]]
    IN Batches(subsampled, bsize, drop_last)

(***************************************************************************)
(* Model, loss and observability helpers.                                  *)
(***************************************************************************)
RECURSIVE SumSeq(_)
SumSeq(seq) == IF Len(seq) = 0 THEN 0 ELSE seq[1] + SumSeq(Tail(seq))

\* keys of the loss bundle, in the order the criterion returns them
LossKeys == <<"loss", "mel_loss", "stop_loss">>

criterion(b) ==
    [k \in {LossKeys[i] : i \in 1..Len(LossKeys)} |->
        CASE k = "mel_loss" -> SumSeq(b)
          [] k = "stop_loss" -> Len(b)
          [] OTHER -> SumSeq(b) + Len(b)]

\* outputs of one forward call; the alignments hold one matrix per example
Forward(b) == [alignments |-> b]

compute_losses(inputs, outs) == criterion(inputs)

\* the gradient of the loss of one batch
GradOf(b) == SumSeq(b) + Len(b)

Scalar(r, prefix, k, v, step) ==
    [writer |-> r, kind |-> "scalar", prefix |-> prefix, name |-> k,
     index |-> -1, value |-> v, step |-> step]

Image(r, i, attention, step) ==
    [writer |-> r, kind |-> "image", prefix |-> "valid_sentence",
     name |-> "alignments", index |-> i, value |-> attention, step |-> step]

RECURSIVE Scalars(_, _, _, _, _)
Scalars(r, prefix, vals, step, i) ==
    IF i > Len(LossKeys) THEN << >>
    ELSE <<Scalar(r, prefix, LossKeys[i], vals[LossKeys[i]], step)>>
         \o Scalars(r, prefix, vals, step, i + 1)

(***************************************************************************)
(* State.                                                                  *)
(***************************************************************************)
VARIABLES
    args,          \* parsed command line: config, opts, nprocs, device, data
    config,        \* the Config tree of the entry point
    frozen,        \* whether config.freeze() was called
    epc,           \* position of the entry point
    write_error,   \* whether a write to the frozen Config was rejected
    spawned,       \* number of worker processes dist.spawn started
    pc,            \* position of every rank's process
    exp_config,    \* the Config each Experiment was built with
    iteration,     \* Experiment.iteration
    epoch,         \* Experiment.epoch
    train_loader,  \* batches of the current epoch of the training loader
    iterator,      \* number of batches read from train_loader, -1 before iter()
    valid_loader,  \* batches of the validation loader
    batch,         \* the batch train_batch or valid is working on
    outputs,       \* outputs of the last forward call
    losses,        \* loss bundle of the last compute_losses call
    training,      \* model.training: TRUE in train mode
    params,        \* model parameters
    buffers,       \* model state updated by forward calls in train mode
    grads,         \* pending gradients, None when cleared
    opt_steps,     \* optimizer state: number of steps taken
    grad_enabled,  \* FALSE inside paddle.no_grad()
    valid_i,       \* index i of the enumerate loop of valid
    valid_losses,  \* per-key lists of the losses valid collected
    valid_seen,    \* batches the current validation pass has processed
    log,           \* lines each rank's logger wrote
    visualizer,    \* records the visualizer received, in order
    heap,          \* the objects of the configuration trees
    copies,        \* addresses get_cfg_defaults returned, in call order
    writes         \* number of writes made to the returned trees

vars == <<args, config, frozen, epc, write_error, spawned, pc, exp_config,
          iteration, epoch, train_loader, iterator, valid_loader, batch,
          outputs, losses, training, params, buffers, grads, opt_steps,
          grad_enabled, valid_i, valid_losses, valid_seen, log, visualizer,
          heap, copies, writes>>

heap_vars == <<heap, copies, writes>>

entry_vars == <<args, config, frozen, epc, write_error, spawned, heap_vars>>

model_vars == <<training, params, buffers, grads, opt_steps, grad_enabled>>

loader_vars == <<epoch, train_loader, iterator, valid_loader>>

valid_vars == <<valid_i, valid_losses, valid_seen>>

Ranks == 0..(MaxProcs - 1)

\* ExperimentBase.parallel
parallel == args.nprocs > 1 /\ args.device = "gpu"

nranks == IF parallel THEN args.nprocs ELSE 1

Procs == {r \in Ranks : pc[r] # "none"}

EmptyLosses == [k \in {LossKeys[i] : i \in 1..Len(LossKeys)} |-> << >>]

(***************************************************************************)
(* Initial states: the command line and the dataset it names.              *)
(***************************************************************************)
FinalConfig(a) ==
    LET c1 == IF a.config # NoFile THEN merge_from_file(_C, a.config) ELSE _C
    IN IF Len(a.opts) > 0 THEN merge_from_list(c1, a.opts) ELSE c1

\* the datasets whose training split is within MaxExtra examples of one
\* global batch and gives every rank at least one training batch
DataSizes(a) ==
    LET c == FinalConfig(a)
        n == IF a.nprocs > 1 /\ a.device = "gpu" THEN a.nprocs ELSE 1
        B == c.data.batch_size
    IN {c.data.valid_size + m :
           m \in {B * n + x : x \in (0 - MaxExtra)..MaxExtra}
                 \cap {k \in 1..(B * n + MaxExtra) : (k + n - 1) \div n >= B}}

ArgsSet ==
    {a \in [config : ConfigFiles \cup {NoFile}, opts : OptsLists,
            nprocs : 0..MaxProcs, device : {"cpu", "gpu"},
            data : 1..(valid_size + batch_size * MaxProcs + MaxExtra)] :
        a.data \in DataSizes(a)}

\* small runs: 3 validation examples in batches of 2, validation after
\* every step, with and without a max_iteration below the cap
SmallArgsSet ==
    {a \in [config : {[key \in S |-> FileValue(key)] :
                        S \in {{<<"data", "valid_size">>,
                                <<"training", "valid_interval">>},
                               {<<"data", "valid_size">>,
                                <<"training", "valid_interval">>,
                                <<"training", "max_iteration">>}}},
            opts : {OptsList({<<"data", "batch_size">>}, 1)},
            nprocs : 0..MaxProcs, device : {"cpu", "gpu"},
            data : 1..(valid_size + batch_size * MaxProcs + MaxExtra)] :
        a.data \in DataSizes(a)}

InitWith(A) ==
    /\ args \in A
    /\ LET res == get_cfg_defaults(_C_heap)
       IN /\ heap = res[1]
          /\ copies = <<res[2]>>
          /\ config = Value(res[1], res[2])
    /\ writes = 0
    /\ frozen = FALSE
    /\ epc = "defaults"
    /\ write_error = FALSE
    /\ spawned = 0
    /\ pc = [r \in Ranks |-> "none"]
    /\ exp_config = [r \in Ranks |-> None]
    /\ iteration = [r \in Ranks |-> 0]
    /\ epoch = [r \in Ranks |-> 0]
    /\ train_loader = [r \in Ranks |-> << >>]
    /\ iterator = [r \in Ranks |-> -1]
    /\ valid_loader = [r \in Ranks |-> << >>]
    /\ batch = [r \in Ranks |-> None]
    /\ outputs = [r \in Ranks |-> None]
    /\ losses = [r \in Ranks |-> None]
    /\ training = [r \in Ranks |-> TRUE]
    /\ params = [r \in Ranks |-> 0]
    /\ buffers = [r \in Ranks |-> 0]
    /\ grads = [r \in Ranks |-> None]
    /\ opt_steps = [r \in Ranks |-> 0]
    /\ grad_enabled = [r \in Ranks |-> TRUE]
    /\ valid_i = [r \in Ranks |-> 0]
    /\ valid_losses = [r \in Ranks |-> EmptyLosses]
    /\ valid_seen = [r \in Ranks |-> << >>]
    /\ log = [r \in Ranks |-> << >>]
    /\ visualizer = << >>

Init == InitWith(ArgsSet)

InitSmall == InitWith(SmallArgsSet)

(***************************************************************************)
(* The entry point.                                                        *)
(***************************************************************************)
\* if args.config: config.merge_from_file(args.config)
MergeFile ==
    /\ epc = "defaults"
    /\ config' = IF args.config # NoFile
                 THEN merge_from_file(config, args.config) ELSE config
    /\ epc' = "file"
    /\ UNCHANGED <<args, frozen, write_error, spawned, pc, exp_config,
                   iteration, batch, outputs, losses, log, visualizer>>
    /\ UNCHANGED <<model_vars, loader_vars, valid_vars, heap_vars>>

\* variant: the list is applied under the file instead of over it
MergeList_BeforeFile ==
    /\ epc = "file"
    /\ config' = LET c == IF Len(args.opts) > 0
                          THEN merge_from_list(config, args.opts) ELSE config
                 IN IF args.config # NoFile
                    THEN merge_from_file(c, args.config) ELSE c
    /\ epc' = "list"
    /\ UNCHANGED <<args, frozen, write_error, spawned, pc, exp_config,
                   iteration, batch, outputs, losses, log, visualizer>>
    /\ UNCHANGED <<model_vars, loader_vars, valid_vars, heap_vars>>

\* if args.opts: config.merge_from_list(args.opts)
MergeList ==
    /\ epc = "file"
    /\ config' = IF Len(args.opts) > 0
                 THEN merge_from_list(config, args.opts) ELSE config
    /\ epc' = "list"
    /\ UNCHANGED <<args, frozen, write_error, spawned, pc, exp_config,
                   iteration, batch, outputs, losses, log, visualizer>>
    /\ UNCHANGED <<model_vars, loader_vars, valid_vars, heap_vars>>

\* variant: the entry point goes on without freezing the tree
Freeze_Skipped ==
    /\ epc = "list"
    /\ epc' = "frozen"
    /\ UNCHANGED <<args, config, frozen, write_error, spawned, pc, exp_config,
                   iteration, batch, outputs, losses, log, visualizer>>
    /\ UNCHANGED <<model_vars, loader_vars, valid_vars, heap_vars>>

\* config.freeze()
Freeze ==
    /\ epc = "list"
    /\ frozen' = TRUE
    /\ epc' = "frozen"
    /\ UNCHANGED <<args, config, write_error, spawned, pc, exp_config,
                   iteration, batch, outputs, losses, log, visualizer>>
    /\ UNCHANGED <<model_vars, loader_vars, valid_vars, heap_vars>>

\* a write to a key of the Config once the entry point has passed freeze():
\* rejected when the tree is frozen
SetAttr(key, v) ==
    /\ epc \in {"frozen", "main"}
    /\ ~write_error
    /\ IF frozen
       THEN write_error' = TRUE /\ UNCHANGED config
       ELSE config' = SetKey(config, key, v) /\ UNCHANGED write_error
    /\ UNCHANGED <<args, frozen, epc, spawned, pc, exp_config,
                   iteration, batch, outputs, losses, log, visualizer>>
    /\ UNCHANGED <<model_vars, loader_vars, valid_vars, heap_vars>>

\* variant: the device is not looked at
Main_AnyDevice ==
    /\ epc = "frozen"
    /\ epc' = "main"
    /\ IF args.nprocs > 1
       THEN /\ spawned' = args.nprocs
            /\ pc' = [r \in Ranks |->
                         IF r < args.nprocs THEN "setup" ELSE "none"]
            /\ exp_config' = [r \in Ranks |->
                         IF r < args.nprocs THEN Some(config) ELSE None]
       ELSE /\ spawned' = spawned
            /\ pc' = [pc EXCEPT ![0] = "setup"]
            /\ exp_config' = [exp_config EXCEPT ![0] = Some(config)]
    /\ UNCHANGED <<args, config, frozen, write_error,
                   iteration, batch, outputs, losses, log, visualizer>>
    /\ UNCHANGED <<model_vars, loader_vars, valid_vars, heap_vars>>

\* main: spawn nprocs workers, or run the body in the current process
Main ==
    /\ epc = "frozen"
    /\ epc' = "main"
    /\ IF args.nprocs > 1 /\ args.device = "gpu"
       THEN /\ spawned' = args.nprocs
            /\ pc' = [r \in Ranks |->
                         IF r < args.nprocs THEN "setup" ELSE "none"]
            /\ exp_config' = [r \in Ranks |->
                         IF r < args.nprocs THEN Some(config) ELSE None]
       ELSE /\ spawned' = spawned
            /\ pc' = [pc EXCEPT ![0] = "setup"]
            /\ exp_config' = [exp_config EXCEPT ![0] = Some(config)]
    /\ UNCHANGED <<args, config, frozen, write_error,
                   iteration, batch, outputs, losses, log, visualizer>>
    /\ UNCHANGED <<model_vars, loader_vars, valid_vars, heap_vars>>

(***************************************************************************)
(* The experiment of one rank.                                             *)
(***************************************************************************)
Cfg(r) == exp_config[r][1]

train_set(r) == split(LJSpeech(args.data), Cfg(r).data.valid_size)[2]

valid_set(r) == split(LJSpeech(args.data), Cfg(r).data.valid_size)[1]

\* variant: every worker loads the whole training split
TrainLoader_NoSampler(r, ep) ==
    DataLoader(train_set(r), Cfg(r).data.batch_size, TRUE, TRUE, ep)

\* the batches the training loader yields in epoch ep
TrainLoader(r, ep) ==
    IF ~parallel
    THEN DataLoader(train_set(r), Cfg(r).data.batch_size, TRUE, TRUE, ep)
    ELSE DistributedBatchSampler(train_set(r), Cfg(r).data.batch_size,
                                 TRUE, TRUE, nranks, r, ep)

\* variant: the validation loader drops its short last batch
ValidLoader_DropLast(r) ==
    DataLoader(valid_set(r), Cfg(r).data.batch_size, FALSE, TRUE, 0)

ValidLoader(r) ==
    DataLoader(valid_set(r), Cfg(r).data.batch_size, FALSE, FALSE, 0)

\* main_sp up to exp.run(): setup_model and setup_dataloader
Setup(r) ==
    /\ pc[r] = "setup"
    /\ training' = [training EXCEPT ![r] = TRUE]
    /\ params' = [params EXCEPT ![r] = 0]
    /\ buffers' = [buffers EXCEPT ![r] = 0]
    /\ grads' = [grads EXCEPT ![r] = None]
    /\ opt_steps' = [opt_steps EXCEPT ![r] = 0]
    /\ train_loader' = [train_loader EXCEPT ![r] = TrainLoader(r, 0)]
    /\ valid_loader' = [valid_loader EXCEPT ![r] = ValidLoader(r)]
    /\ pc' = [pc EXCEPT ![r] = "run"]
    /\ UNCHANGED <<entry_vars, exp_config, iteration, epoch, iterator, batch,
                   outputs, losses, grad_enabled, log, visualizer>>
    /\ UNCHANGED valid_vars

\* the loop of ExperimentBase.run: one more training step, or stop
RunLoop(r) ==
    /\ pc[r] = "run"
    /\ pc' = [pc EXCEPT ![r] =
                 IF /\ iteration[r] < Cfg(r).training.max_iteration
                    /\ iteration[r] < MaxIter
                 THEN "tb_read" ELSE "done"]
    /\ UNCHANGED <<entry_vars, exp_config, iteration, batch, outputs, losses,
                   log, visualizer>>
    /\ UNCHANGED <<model_vars, loader_vars, valid_vars>>

\* batch = self.read_batch(): the next batch, starting a new epoch when the
\* loader is exhausted
ReadBatch(r) ==
    /\ pc[r] = "tb_read"
    /\ IF iterator[r] = -1 \/ iterator[r] >= Len(train_loader[r])
       THEN /\ epoch' = [epoch EXCEPT ![r] = @ + 1]
            /\ train_loader' =
                   [train_loader EXCEPT ![r] = TrainLoader(r, epoch[r] + 1)]
            /\ iterator' = [iterator EXCEPT ![r] = 1]
            /\ batch' = [batch EXCEPT ![r] = TrainLoader(r, epoch[r] + 1)[1]]
       ELSE /\ iterator' = [iterator EXCEPT ![r] = @ + 1]
            /\ batch' = [batch EXCEPT ![r] = train_loader[r][iterator[r] + 1]]
            /\ UNCHANGED <<epoch, train_loader>>
    /\ pc' = [pc EXCEPT ![r] = "tb_clear"]
    /\ UNCHANGED <<entry_vars, exp_config, iteration, valid_loader, outputs,
                   losses, log, visualizer>>
    /\ UNCHANGED <<model_vars, valid_vars>>

\* self.optimizer.clear_grad()
ClearGrad(r) ==
    /\ pc[r] = "tb_clear"
    /\ grads' = [grads EXCEPT ![r] = None]
    /\ pc' = [pc EXCEPT ![r] = "tb_train"]
    /\ UNCHANGED <<entry_vars, exp_config, iteration, batch, outputs, losses,
                   training, params, buffers, opt_steps, grad_enabled,
                   log, visualizer>>
    /\ UNCHANGED <<loader_vars, valid_vars>>

\* self.model.train()
ModelTrain(r) ==
    /\ pc[r] = "tb_train"
    /\ training' = [training EXCEPT ![r] = TRUE]
    /\ pc' = [pc EXCEPT ![r] = "tb_fwd"]
    /\ UNCHANGED <<entry_vars, exp_config, iteration, batch, outputs, losses,
                   params, buffers, grads, opt_steps, grad_enabled,
                   log, visualizer>>
    /\ UNCHANGED <<loader_vars, valid_vars>>

\* the model state after one forward call: a call in train mode updates the
\* running statistics, a call in eval mode leaves them alone
BuffersAfterForward(r) == IF training[r] THEN buffers[r] + 1 ELSE buffers[r]

\* outputs = self.model(texts, mels, text_lens, output_lens)
TrainForward(r) ==
    /\ pc[r] = "tb_fwd"
    /\ outputs' = [outputs EXCEPT ![r] = Some(Forward(batch[r]))]
    /\ buffers' = [buffers EXCEPT ![r] = BuffersAfterForward(r)]
    /\ pc' = [pc EXCEPT ![r] = "tb_loss"]
    /\ UNCHANGED <<entry_vars, exp_config, iteration, batch, losses,
                   training, params, grads, opt_steps, grad_enabled,
                   log, visualizer>>
    /\ UNCHANGED <<loader_vars, valid_vars>>

\* losses = self.compute_losses(batch, outputs)
TrainLosses(r) ==
    /\ pc[r] = "tb_loss"
    /\ losses' = [losses EXCEPT ![r] =
                     Some(compute_losses(batch[r], outputs[r][1]))]
    /\ pc' = [pc EXCEPT ![r] = "tb_bwd"]
    /\ UNCHANGED <<entry_vars, exp_config, iteration, batch, outputs,
                   log, visualizer>>
    /\ UNCHANGED <<model_vars, loader_vars, valid_vars>>

\* variant: the model is not wrapped in DataParallel, every worker steps
\* with its own gradient
Backward_NoSync(r) ==
    /\ pc[r] = "tb_bwd"
    /\ grads' = [grads EXCEPT ![r] =
                    Some((IF @ = None THEN 0 ELSE @[1]) + GradOf(batch[r]))]
    /\ pc' = [pc EXCEPT ![r] = "tb_step"]
    /\ UNCHANGED <<entry_vars, exp_config, iteration, batch, outputs, losses,
                   training, params, buffers, opt_steps, grad_enabled,
                   log, visualizer>>
    /\ UNCHANGED <<loader_vars, valid_vars>>

\* loss.backward(): the local gradient, then (DataParallel) the collective
Backward(r) ==
    /\ pc[r] = "tb_bwd"
    /\ grads' = [grads EXCEPT ![r] =
                    Some((IF @ = None THEN 0 ELSE @[1]) + GradOf(batch[r]))]
    /\ pc' = [pc EXCEPT ![r] = IF parallel THEN "tb_sync" ELSE "tb_step"]
    /\ UNCHANGED <<entry_vars, exp_config, iteration, batch, outputs, losses,
                   training, params, buffers, opt_steps, grad_enabled,
                   log, visualizer>>
    /\ UNCHANGED <<loader_vars, valid_vars>>

RECURSIVE SumGrads(_)
SumGrads(S) ==
    IF S = {} THEN 0
    ELSE LET r == CHOOSE q \in S : TRUE IN grads[r][1] + SumGrads(S \ {r})

\* variant: the collective completes for the workers that have joined
AllReduce_Partial ==
    /\ parallel
    /\ \E S \in SUBSET Procs :
          /\ S # {}
          /\ \A r \in S : pc[r] = "tb_sync"
          /\ grads' = [r \in Ranks |->
                          IF r \in S THEN Some(SumGrads(S) \div nranks)
                          ELSE grads[r]]
          /\ pc' = [r \in Ranks |-> IF r \in S THEN "tb_step" ELSE pc[r]]
    /\ UNCHANGED <<entry_vars, exp_config, iteration, batch, outputs, losses,
                   training, params, buffers, opt_steps, grad_enabled,
                   log, visualizer>>
    /\ UNCHANGED <<loader_vars, valid_vars>>

\* the gradient-average collective: completes once every worker has joined
AllReduce ==
    /\ parallel
    /\ Procs # {}
    /\ \A r \in Procs : pc[r] = "tb_sync"
    /\ grads' = [r \in Ranks |->
                    IF r \in Procs THEN Some(SumGrads(Procs) \div nranks)
                    ELSE grads[r]]
    /\ pc' = [r \in Ranks |-> IF r \in Procs THEN "tb_step" ELSE pc[r]]
    /\ UNCHANGED <<entry_vars, exp_config, iteration, batch, outputs, losses,
                   training, params, buffers, opt_steps, grad_enabled,
                   log, visualizer>>
    /\ UNCHANGED <<loader_vars, valid_vars>>

\* variant: the gradients are cleared right before the optimizer step
OptimizerStep_AfterClear(r) ==
    /\ pc[r] = "tb_step"
    /\ grads' = [grads EXCEPT ![r] = None]
    /\ opt_steps' = [opt_steps EXCEPT ![r] = @ + 1]
    /\ pc' = [pc EXCEPT ![r] = "tb_log"]
    /\ UNCHANGED <<entry_vars, exp_config, iteration, batch, outputs, losses,
                   training, params, buffers, grad_enabled, log, visualizer>>
    /\ UNCHANGED <<loader_vars, valid_vars>>

\* self.optimizer.step()
OptimizerStep(r) ==
    /\ pc[r] = "tb_step"
    /\ params' = [params EXCEPT ![r] =
                     @ + (IF grads[r] = None THEN 0 ELSE grads[r][1])]
    /\ opt_steps' = [opt_steps EXCEPT ![r] = @ + 1]
    /\ pc' = [pc EXCEPT ![r] = "tb_log"]
    /\ UNCHANGED <<entry_vars, exp_config, iteration, batch, outputs, losses,
                   training, buffers, grads, grad_enabled, log, visualizer>>
    /\ UNCHANGED <<loader_vars, valid_vars>>

\* variant: train_batch counts the step itself
TrainLog_Counting(r) ==
    /\ pc[r] = "tb_log"
    /\ log' = [log EXCEPT ![r] =
                  Append(@, [kind |-> "train", rank |-> r,
                             step |-> iteration[r], values |-> losses[r][1]])]
    /\ visualizer' =
           IF r = 0
           THEN visualizer \o
                Scalars(r, "train_loss", losses[r][1], iteration[r], 1)
           ELSE visualizer
    /\ iteration' = [iteration EXCEPT ![r] = @ + 1]
    /\ pc' = [pc EXCEPT ![r] = "tb_ret"]
    /\ UNCHANGED <<entry_vars, exp_config, batch, outputs, losses>>
    /\ UNCHANGED <<model_vars, loader_vars, valid_vars>>

\* variant: every rank forwards its scalars
TrainLog_AllRanks(r) ==
    /\ pc[r] = "tb_log"
    /\ log' = [log EXCEPT ![r] =
                  Append(@, [kind |-> "train", rank |-> r,
                             step |-> iteration[r], values |-> losses[r][1]])]
    /\ visualizer' =
           visualizer \o
           Scalars(r, "train_loss", losses[r][1], iteration[r], 1)
    /\ pc' = [pc EXCEPT ![r] = "tb_ret"]
    /\ UNCHANGED <<entry_vars, exp_config, iteration, batch, outputs,
                   losses>>
    /\ UNCHANGED <<model_vars, loader_vars, valid_vars>>

\* variant: the scalars are keyed by the number of the step that follows
TrainLog_ScalarNextStep(r) ==
    /\ pc[r] = "tb_log"
    /\ log' = [log EXCEPT ![r] =
                  Append(@, [kind |-> "train", rank |-> r,
                             step |-> iteration[r], values |-> losses[r][1]])]
    /\ visualizer' =
           IF r = 0
           THEN visualizer \o
                Scalars(r, "train_loss", losses[r][1], iteration[r] + 1, 1)
           ELSE visualizer
    /\ pc' = [pc EXCEPT ![r] = "tb_ret"]
    /\ UNCHANGED <<entry_vars, exp_config, iteration, batch, outputs,
                   losses>>
    /\ UNCHANGED <<model_vars, loader_vars, valid_vars>>

\* the log line of every rank, and the train_loss scalars of rank 0
TrainLog(r) ==
    /\ pc[r] = "tb_log"
    /\ log' = [log EXCEPT ![r] =
                  Append(@, [kind |-> "train", rank |-> r,
                             step |-> iteration[r], values |-> losses[r][1]])]
    /\ visualizer' =
           IF r = 0
           THEN visualizer \o
                Scalars(r, "train_loss", losses[r][1], iteration[r], 1)
           ELSE visualizer
    /\ pc' = [pc EXCEPT ![r] = "tb_ret"]
    /\ UNCHANGED <<entry_vars, exp_config, iteration, batch, outputs,
                   losses>>
    /\ UNCHANGED <<model_vars, loader_vars, valid_vars>>

\* the loop of ExperimentBase.run after train_batch returned: count the
\* step, and validate every valid_interval steps
RunAfterBatch(r) ==
    /\ pc[r] = "tb_ret"
    /\ iteration' = [iteration EXCEPT ![r] = @ + 1]
    /\ pc' = [pc EXCEPT ![r] =
                 IF (iteration[r] + 1) % Cfg(r).training.valid_interval = 0
                 THEN "valid" ELSE "run"]
    /\ UNCHANGED <<entry_vars, exp_config, batch, outputs, losses,
                   log, visualizer>>
    /\ UNCHANGED <<model_vars, loader_vars, valid_vars>>

(***************************************************************************)
(* valid: @mp_tools.rank_zero_only, @paddle.no_grad().                     *)
(***************************************************************************)
\* variant: valid is not restricted to rank 0
Valid_AllRanks(r) ==
    /\ pc[r] = "valid"
    /\ grad_enabled' = [grad_enabled EXCEPT ![r] = FALSE]
    /\ valid_i' = [valid_i EXCEPT ![r] = 0]
    /\ valid_losses' = [valid_losses EXCEPT ![r] = EmptyLosses]
    /\ valid_seen' = [valid_seen EXCEPT ![r] = << >>]
    /\ pc' = [pc EXCEPT ![r] = "v_batch"]
    /\ UNCHANGED <<entry_vars, exp_config, iteration, batch, outputs, losses,
                   training, params, buffers, grads, opt_steps,
                   log, visualizer>>
    /\ UNCHANGED loader_vars

\* the call of valid: returns at once on every rank but 0; on rank 0 enters
\* no_grad and starts the loop over the validation loader
Valid(r) ==
    /\ pc[r] = "valid"
    /\ IF r # 0
       THEN /\ pc' = [pc EXCEPT ![r] = "run"]
            /\ UNCHANGED <<grad_enabled, valid_vars>>
       ELSE /\ grad_enabled' = [grad_enabled EXCEPT ![r] = FALSE]
            /\ valid_i' = [valid_i EXCEPT ![r] = 0]
            /\ valid_losses' = [valid_losses EXCEPT ![r] = EmptyLosses]
            /\ valid_seen' = [valid_seen EXCEPT ![r] = << >>]
            /\ pc' = [pc EXCEPT ![r] = "v_batch"]
    /\ UNCHANGED <<entry_vars, exp_config, iteration, batch, outputs, losses,
                   training, params, buffers, grads, opt_steps,
                   log, visualizer>>
    /\ UNCHANGED loader_vars

\* variant: the attention plot is keyed by the index of the batch
ValidBatch_StepPerBatch(r) ==
    /\ pc[r] = "v_batch"
    /\ valid_i[r] < Len(valid_loader[r])
    /\ LET b == valid_loader[r][valid_i[r] + 1]
           outs == Forward(b)
           ls == compute_losses(b, outs)
       IN /\ batch' = [batch EXCEPT ![r] = b]
          /\ outputs' = [outputs EXCEPT ![r] = Some(outs)]
          /\ buffers' = [buffers EXCEPT ![r] = BuffersAfterForward(r)]
          /\ losses' = [losses EXCEPT ![r] = Some(ls)]
          /\ valid_losses' = [valid_losses EXCEPT ![r] =
                                [k \in DOMAIN @ |-> Append(@[k], ls[k])]]
          /\ visualizer' = Append(visualizer,
                 Image(r, valid_i[r], outs.alignments, valid_i[r]))
          /\ valid_seen' = [valid_seen EXCEPT ![r] = Append(@, b)]
    /\ valid_i' = [valid_i EXCEPT ![r] = @ + 1]
    /\ UNCHANGED <<entry_vars, pc, exp_config, iteration, training, params,
                   grads, opt_steps, grad_enabled, log>>
    /\ UNCHANGED loader_vars

\* one round of the loop: forward, losses, and the attention plot
ValidBatch(r) ==
    /\ pc[r] = "v_batch"
    /\ valid_i[r] < Len(valid_loader[r])
    /\ LET b == valid_loader[r][valid_i[r] + 1]
           outs == Forward(b)
           ls == compute_losses(b, outs)
       IN /\ batch' = [batch EXCEPT ![r] = b]
          /\ outputs' = [outputs EXCEPT ![r] = Some(outs)]
          /\ buffers' = [buffers EXCEPT ![r] = BuffersAfterForward(r)]
          /\ losses' = [losses EXCEPT ![r] = Some(ls)]
          /\ valid_losses' = [valid_losses EXCEPT ![r] =
                                [k \in DOMAIN @ |-> Append(@[k], ls[k])]]
          /\ visualizer' = Append(visualizer,
                 Image(r, valid_i[r], outs.alignments, iteration[r]))
          /\ valid_seen' = [valid_seen EXCEPT ![r] = Append(@, b)]
    /\ valid_i' = [valid_i EXCEPT ![r] = @ + 1]
    /\ UNCHANGED <<entry_vars, pc, exp_config, iteration, training, params,
                   grads, opt_steps, grad_enabled, log>>
    /\ UNCHANGED loader_vars

\* variant: tracking is switched off and on again by hand, without a
\* handler for the exception
ValidFail_NoRestore(r) ==
    /\ pc[r] = "v_batch"
    /\ valid_i[r] < Len(valid_loader[r])
    /\ batch' = [batch EXCEPT ![r] = valid_loader[r][valid_i[r] + 1]]
    /\ pc' = [pc EXCEPT ![r] = "failed"]
    /\ UNCHANGED <<entry_vars, exp_config, iteration, outputs, losses,
                   log, visualizer>>
    /\ UNCHANGED <<model_vars, loader_vars, valid_vars>>

\* a round of the loop raises: the exception leaves valid through the
\* no_grad decorator, which restores gradient tracking, and ends the process
ValidFail(r) ==
    /\ pc[r] = "v_batch"
    /\ valid_i[r] < Len(valid_loader[r])
    /\ batch' = [batch EXCEPT ![r] = valid_loader[r][valid_i[r] + 1]]
    /\ grad_enabled' = [grad_enabled EXCEPT ![r] = TRUE]
    /\ pc' = [pc EXCEPT ![r] = "failed"]
    /\ UNCHANGED <<entry_vars, exp_config, iteration, outputs, losses,
                   training, params, buffers, grads, opt_steps,
                   log, visualizer>>
    /\ UNCHANGED <<loader_vars, valid_vars>>

\* np.mean of a list, as the pair <<sum, count>>
Mean(v) == <<SumSeq(v), Len(v)>>

\* variant: the summary reports the losses of the last batch
ValidSummary_LastBatch(r) ==
    /\ pc[r] = "v_batch"
    /\ valid_i[r] >= Len(valid_loader[r])
    /\ LET means == [k \in DOMAIN valid_losses[r] |->
                        Mean(<<valid_losses[r][k][Len(valid_losses[r][k])]>>)]
           seen == valid_i[r] > 0
       IN /\ log' = [log EXCEPT ![r] =
                       Append(@, [kind |-> "valid", rank |-> r,
                                  step |-> iteration[r], values |-> means])]
          /\ visualizer' =
                 IF seen
                 THEN visualizer \o Scalars(r, "valid", means, iteration[r], 1)
                 ELSE visualizer
    /\ grad_enabled' = [grad_enabled EXCEPT ![r] = TRUE]
    /\ pc' = [pc EXCEPT ![r] = "run"]
    /\ UNCHANGED <<entry_vars, exp_config, iteration, batch, outputs, losses,
                   training, params, buffers, grads, opt_steps>>
    /\ UNCHANGED <<loader_vars, valid_vars>>

\* after the loop: the means, the log line and the valid scalars
ValidSummary(r) ==
    /\ pc[r] = "v_batch"
    /\ valid_i[r] >= Len(valid_loader[r])
    /\ LET means == [k \in DOMAIN valid_losses[r] |->
                        Mean(valid_losses[r][k])]
           seen == valid_i[r] > 0
       IN /\ log' = [log EXCEPT ![r] =
                       Append(@, [kind |-> "valid", rank |-> r,
                                  step |-> iteration[r], values |-> means])]
          /\ visualizer' =
                 IF seen
                 THEN visualizer \o Scalars(r, "valid", means, iteration[r], 1)
                 ELSE visualizer
    /\ grad_enabled' = [grad_enabled EXCEPT ![r] = TRUE]
    /\ pc' = [pc EXCEPT ![r] = "run"]
    /\ UNCHANGED <<entry_vars, exp_config, iteration, batch, outputs, losses,
                   training, params, buffers, grads, opt_steps>>
    /\ UNCHANGED <<loader_vars, valid_vars>>

(***************************************************************************)
(* Specification.                                                          *)
(***************************************************************************)
Step(r) ==
    \/ Setup(r)
    \/ RunLoop(r)
    \/ ReadBatch(r)
    \/ ClearGrad(r)
    \/ ModelTrain(r)
    \/ TrainForward(r)
    \/ TrainLosses(r)
    \/ Backward(r)
    \/ OptimizerStep(r)
    \/ TrainLog(r)
    \/ RunAfterBatch(r)
    \/ Valid(r)
    \/ ValidBatch(r)
    \/ ValidFail(r)
    \/ ValidSummary(r)

Next ==
    \/ MergeFile
    \/ MergeList
    \/ Freeze
    \/ Main
    \/ \E key \in Keys : SetAttr(key, 1)
    \/ AllReduce
    \/ \E r \in Ranks : Step(r)

Spec == Init /\ [][Next]_vars

\* the processes are scheduled: while some process can take a step, one does
FairSpec == InitSmall /\ [][Next]_vars /\ WF_vars(Next)

(***************************************************************************)
(* The callers of get_cfg_defaults: each call hands out a tree, and the    *)
(* holders of the trees write to them.                                     *)
(***************************************************************************)
run_vars == <<args, config, frozen, epc, write_error, spawned, pc, exp_config,
              iteration, batch, outputs, losses, log, visualizer,
              model_vars, loader_vars, valid_vars>>

\* config = get_cfg_defaults()
CallDefaults ==
    /\ Len(copies) < MaxCopies
    /\ LET res == get_cfg_defaults(heap)
       IN /\ heap' = res[1]
          /\ copies' = Append(copies, res[2])
    /\ UNCHANGED <<writes, run_vars>>

\* config.<s>.<k> = v on the c-th tree handed out
WriteKey(c, s, k, v) ==
    /\ writes < MaxWrites
    /\ c \in 1..Len(copies)
    /\ s \in DOMAIN heap[copies[c]].slots
    /\ LET node == heap[copies[c]].slots[s].to
       IN /\ k \in DOMAIN heap[node].slots
          /\ ~heap[node].slots[k].ref
          /\ heap' = [heap EXCEPT ![node].slots[k] = Num(v)]
    /\ writes' = writes + 1
    /\ UNCHANGED <<copies, run_vars>>

\* config.<s>.<k>[i] = v on the c-th tree handed out, k a list-valued key
WriteItem(c, s, k, i, v) ==
    /\ writes < MaxWrites
    /\ c \in 1..Len(copies)
    /\ s \in DOMAIN heap[copies[c]].slots
    /\ LET node == heap[copies[c]].slots[s].to
       IN /\ k \in DOMAIN heap[node].slots
          /\ heap[node].slots[k].ref
          /\ LET list == heap[node].slots[k].to
             IN /\ i \in 1..Len(heap[list].items)
                /\ heap' = [heap EXCEPT ![list].items[i] = v]
    /\ writes' = writes + 1
    /\ UNCHANGED <<copies, run_vars>>

AllSections == DOMAIN _C

AllKeys == UNION {DOMAIN _C[s] : s \in AllSections}

DefaultsArgsSet ==
    {a \in ArgsSet : a.config = NoFile /\ a.opts = << >>
                      /\ a.nprocs = 1 /\ a.device = "cpu"}

InitDefaults == InitWith(DefaultsArgsSet)

NextDefaults ==
    \/ CallDefaults
    \/ \E c \in 1..MaxCopies, s \in AllSections, k \in AllKeys :
           WriteKey(c, s, k, 0)
    \/ \E c \in 1..MaxCopies, s \in AllSections, k \in AllKeys, i \in 1..2 :
           WriteItem(c, s, k, i, 0)

DefaultsSpec == InitDefaults /\ [][NextDefaults]_vars

(***************************************************************************)
(* Properties.                                                             *)
(***************************************************************************)
TrainBatchPCs == {"tb_read", "tb_clear", "tb_train", "tb_fwd", "tb_loss",
                  "tb_bwd", "tb_sync", "tb_step", "tb_log"}

ValidPCs == {"valid", "v_batch"}

Started(r) == pc[r] \notin {"none", "setup"}

TrainLines(r) == SelectSeq(log[r], LAMBDA l : l.kind = "train")

\* C1 as stated: when train_batch returns, iteration is one more than the
\* value it had during the call (the value the call's log line reports).
C1_TrainBatchIncrements ==
    \A r \in Ranks :
        pc[r] = "tb_ret" =>
            iteration[r] = log[r][Len(log[r])].step + 1

\* C1 amended: no step of train_batch changes iteration; the run loop adds
\* exactly one after each call of train_batch, on every rank and in both
\* modes, and nothing else changes the counter.
C1_StepCountedByLoop ==
    [][\A r \in Ranks :
          /\ pc[r] \in TrainBatchPCs => iteration'[r] = iteration[r]
          /\ pc[r] = "tb_ret" /\ pc'[r] # "tb_ret" =>
                 iteration'[r] = iteration[r] + 1
          /\ iteration'[r] # iteration[r] => pc[r] = "tb_ret"]_vars

\* a worker other than rank 0 has been through two training steps
C1_Witness ==
    /\ parallel
    /\ \E r \in Procs :
          /\ r # 0
          /\ pc[r] = "run"
          /\ iteration[r] = 2
          /\ Len(TrainLines(r)) = 2

\* C2: every record the visualizer received was written by rank 0.
C2_OnlyRankZeroWrites ==
    \A i \in 1..Len(visualizer) : visualizer[i].writer = 0

\* several ranks have trained and called valid, and records were written
C2_Witness ==
    /\ parallel
    /\ Len(visualizer) > 0
    /\ \A r \in Procs :
          /\ pc[r] = "done"
          /\ Len(TrainLines(r)) > 0
          /\ iteration[r] >= Cfg(r).training.valid_interval

RECURSIVE Flatten(_)
Flatten(seqs) ==
    IF Len(seqs) = 0 THEN << >> ELSE seqs[1] \o Flatten(Tail(seqs))

\* C3: when the loop of valid is over, the batches it processed are
\* ceil(V/B) in number, all of B examples but a last one of V mod B when B
\* does not divide V, and together they are the V validation examples, each
\* once.
C3_ValidationCoversSplit ==
    \A r \in Ranks :
        (pc[r] = "v_batch" /\ valid_i[r] >= Len(valid_loader[r])) =>
            LET V == Cfg(r).data.valid_size
                B == Cfg(r).data.batch_size
                n == Len(valid_seen[r])
            IN /\ n = CeilDiv(V, B)
               /\ Flatten(valid_seen[r]) = [i \in 1..V |-> i - 1]
               /\ \A i \in 1..n :
                     Len(valid_seen[r][i]) =
                        IF i = n /\ V % B # 0 THEN V % B ELSE B

\* a pass over 64 examples in batches of 3 has processed its 21 full
\* batches and the last batch of 1
C3_Witness ==
    /\ pc[0] = "v_batch"
    /\ valid_i[0] >= Len(valid_loader[0])
    /\ Cfg(0).data.valid_size = 64
    /\ Cfg(0).data.batch_size = 3
    /\ Len(valid_seen[0]) = 22
    /\ Len(valid_seen[0][22]) = 1

\* C4: in multi-process mode the training loaders of all ranks hold the same
\* number of batches, every batch has batch_size examples, and that number
\* is floor(ceil(M / N) / B).
C4_EqualBatchCounts ==
    parallel =>
        \A r \in Ranks :
            Started(r) =>
                /\ Started(0) => Len(train_loader[r]) = Len(train_loader[0])
                /\ Len(train_loader[r]) =
                      CeilDiv(Len(train_set(r)), nranks)
                         \div Cfg(r).data.batch_size
                /\ \A i \in 1..Len(train_loader[r]) :
                      Len(train_loader[r][i]) = Cfg(r).data.batch_size

\* the ranks do not divide the training split, and every rank has read
\* batches of more than one epoch
C4_Witness ==
    /\ parallel
    /\ Procs # {}
    /\ \A r \in Procs :
          /\ pc[r] = "done"
          /\ epoch[r] = 2
          /\ Len(train_set(r)) % nranks # 0

\* C5 as stated: no step of valid changes the model's parameters, the
\* model's state or the optimizer's state.
C5_ValidReadOnly ==
    [][\A r \in Ranks :
          pc[r] \in ValidPCs =>
              /\ params'[r] = params[r]
              /\ buffers'[r] = buffers[r]
              /\ opt_steps'[r] = opt_steps[r]
              /\ grads'[r] = grads[r]]_vars

\* C6: once main has run, the processes are ranks 0..N-1, each built with
\* the frozen Config, when nprocs > 1 on gpu, and otherwise the one current
\* process with no worker spawned; before main there is no process.
C6_LaunchMode ==
    IF epc = "main"
    THEN IF args.nprocs > 1 /\ args.device = "gpu"
         THEN /\ spawned = args.nprocs
              /\ Procs = 0..(args.nprocs - 1)
              /\ \A r \in Procs : frozen /\ exp_config[r] = Some(config)
         ELSE /\ spawned = 0
              /\ Procs = {0}
              /\ exp_config[0] = Some(config)
    ELSE spawned = 0 /\ Procs = {}

\* more than one worker was asked for on cpu and the body ran once
C6_Witness ==
    /\ epc = "main"
    /\ args.nprocs > 1
    /\ args.device = "cpu"
    /\ pc[0] = "done"

StepsToRun(r) ==
    IF Cfg(r).training.max_iteration < MaxIter
    THEN Cfg(r).training.max_iteration ELSE MaxIter

AllDone ==
    /\ epc = "main"
    /\ \A r \in Procs : pc[r] = "done" /\ iteration[r] = StepsToRun(r)

\* a validation pass did not terminate: it ended the process with an error
ValidFailed == \E r \in Ranks : pc[r] = "failed"

\* C7: a collective completes only with rank 0 in it, no step of valid is a
\* step of the collective, and under fair scheduling every rank completes
\* all its training steps, unless a validation pass ends with an error
\* instead of terminating.
C7_NoDeadlock ==
    /\ [][\A r \in Ranks :
             /\ (pc[r] = "tb_sync" /\ pc'[r] # "tb_sync") =>
                    (pc[0] = "tb_sync" /\ pc'[0] = "tb_step")
             /\ pc[r] \in ValidPCs =>
                    pc'[r] \in ValidPCs \cup {"run", "failed"}]_vars
    /\ <>(AllDone \/ ValidFailed)

\* rank 0 is validating while another rank waits in the next collective
C7_Witness ==
    /\ parallel
    /\ pc[0] = "v_batch"
    /\ valid_i[0] > 0
    /\ \E r \in Procs : pc[r] = "tb_sync" /\ iteration[r] = iteration[0]

\* C8: no step of valid changes iteration, every record a step of valid
\* adds is keyed by iteration, and when the pass returns all its records
\* (one image per batch, one scalar per loss key) carry that value.
C8_ValidKeepsIteration ==
    [][\A r \in Ranks :
          pc[r] \in ValidPCs =>
              /\ iteration'[r] = iteration[r]
              /\ r = 0 =>
                    \A j \in (Len(visualizer) + 1)..Len(visualizer') :
                        visualizer'[j].step = iteration[r]
              /\ (r = 0 /\ pc'[r] = "run" /\ valid_i[r] > 0) =>
                    /\ Len(visualizer') >= valid_i[r] + Len(LossKeys)
                    /\ \A j \in 1..Len(visualizer') :
                          j > Len(visualizer') - valid_i[r] - Len(LossKeys)
                             => /\ visualizer'[j].step = iteration'[r]
                                /\ visualizer'[j].prefix
                                      \in {"valid", "valid_sentence"}]_vars

\* a validation pass of several batches has returned at iteration 2
C8_Witness ==
    /\ pc[0] = "run"
    /\ iteration[0] = 2
    /\ valid_i[0] > 1
    /\ Len(log[0]) > 0
    /\ log[0][Len(log[0])].kind = "valid"
    /\ log[0][Len(log[0])].step = 2

\* the value --opts gives a key: that of its last pair naming the key
RECURSIVE OptsLookup(_, _, _)
OptsLookup(cfg_list, key, dflt) ==
    IF Len(cfg_list) < 2 THEN dflt
    ELSE OptsLookup(SubSeq(cfg_list, 3, Len(cfg_list)), key,
                    IF cfg_list[1] = key THEN cfg_list[2] ELSE dflt)

OptsKeys == {args.opts[i] : i \in {j \in 1..Len(args.opts) : j % 2 = 1}}

Expected(key) ==
    IF key \in OptsKeys THEN OptsLookup(args.opts, key, 0)
    ELSE IF key \in DOMAIN args.config THEN args.config[key]
    ELSE _C[key[1]][key[2]]

\* C9: once both merges are done every key holds the list's value if the
\* list names it, else the file's value if the file names it, else its
\* default.
C9_OverrideOrder ==
    epc \in {"list", "frozen", "main"} =>
        \A key \in Keys : config[key[1]][key[2]] = Expected(key)

\* file and list name the same key with different values, and the
\* experiment ran with the merged tree
C9_Witness ==
    /\ epc = "main"
    /\ pc[0] = "done"
    /\ \E key \in OptsKeys :
          /\ key \in DOMAIN args.config
          /\ args.config[key] # OptsLookup(args.opts, key, 0)
    /\ \E key \in Keys : key \notin OptsKeys /\ key \notin DOMAIN args.config

\* C10: the merges come before freeze and freeze before any experiment; a
\* frozen tree never changes and stays frozen, a write to it is rejected,
\* and every experiment holds the frozen tree.
C10_WriteOnceThenFrozen ==
    /\ [](/\ epc \in {"defaults", "file", "list"} => ~frozen /\ Procs = {}
          /\ epc \in {"frozen", "main"} => frozen
          /\ \A r \in Procs : frozen /\ exp_config[r] = Some(config))
    /\ [][/\ config' # config => ~frozen /\ epc \in {"defaults", "file"}
          /\ frozen => frozen' /\ config' = config
          /\ (\E key \in Keys : SetAttr(key, 1)) =>
                 write_error' /\ config' = config]_vars

\* a write to the frozen tree was rejected and the experiments finished
C10_Witness ==
    /\ epc = "main"
    /\ frozen
    /\ write_error
    /\ Procs # {}
    /\ \A r \in Procs : pc[r] = "done"

(***************************************************************************)
(* C11: get_cfg_defaults returns an independent copy of the default tree   *)
(* on every call.  Whatever was written to the trees returned before, at   *)
(* any depth and into list-valued keys, the module-level tree still holds  *)
(* the compiled defaults, a new call returns the compiled defaults, and no *)
(* object belongs to two returned trees or to a returned tree and the      *)
(* module-level tree.                                                      *)
(***************************************************************************)
C11_IndependentCopies ==
    /\ [](/\ Value(heap, _C_root) = _C
          /\ \A i \in 1..Len(copies) :
                Reach(heap, copies[i]) \cap Reach(heap, _C_root) = {}
          /\ \A i, j \in 1..Len(copies) :
                i # j => Reach(heap, copies[i]) \cap Reach(heap, copies[j]) = {})
    /\ [][Len(copies') > Len(copies) =>
             Value(heap', copies'[Len(copies')]) = _C]_vars

\* three trees were handed out; an item of a list-valued key of the first
\* and a key of the second were written, and the third is untouched
C11_Witness ==
    /\ Len(copies) = 3
    /\ writes = 2
    /\ Value(heap, copies[1]).model.upsample_factors[1] = 0
    /\ Value(heap, copies[2]).data.batch_size = 0
    /\ Value(heap, copies[3]) = _C

(***************************************************************************)
(* C12: in multi-process mode the workers hold identical parameters after  *)
(* every training step.  Between backward and the optimizer step every     *)
(* worker holds the same gradient, the average over all N workers of the   *)
(* gradients of that step, so two workers that have taken the same number  *)
(* of optimizer steps hold the same parameters.                            *)
(***************************************************************************)
C12_WorkersInStep ==
    /\ [](parallel =>
            \A r1, r2 \in Procs :
              /\ opt_steps[r1] = opt_steps[r2] => params[r1] = params[r2]
              /\ (pc[r1] = "tb_step" /\ pc[r2] = "tb_step") =>
                     grads[r1] # None /\ grads[r1] = grads[r2])
    /\ [][\A r \in Procs :
             (parallel /\ pc[r] = "tb_bwd" /\ pc'[r] # "tb_bwd") =>
                pc'[r] = "tb_sync"]_vars
    /\ [][(\E r \in Procs : pc[r] = "tb_sync" /\ pc'[r] # "tb_sync") =>
             \A r \in Procs :
               /\ pc[r] = "tb_sync"
               /\ pc'[r] = "tb_step"
               /\ grads'[r] =
                      Some(SumSeq([i \in 1..nranks |-> grads[i - 1][1]])
                           \div nranks)]_vars

\* two workers trained on different batches and have both taken their
\* second optimizer step
C12_Witness ==
    /\ parallel
    /\ nranks = 2
    /\ pc[0] = "tb_log"
    /\ pc[1] = "tb_log"
    /\ opt_steps[0] = 2
    /\ opt_steps[1] = 2
    /\ GradOf(batch[0]) # GradOf(batch[1])
    /\ params[0] > 0

(***************************************************************************)
(* C13: in multi-process mode the training examples two ranks see within   *)
(* one epoch are disjoint.                                                 *)
(***************************************************************************)
Examples(loader) ==
    UNION {{loader[b][i] : i \in 1..Len(loader[b])} : b \in 1..Len(loader)}

SameEpoch(r1, r2) ==
    /\ r1 # r2
    /\ iterator[r1] # -1
    /\ iterator[r2] # -1
    /\ epoch[r1] = epoch[r2]

\* as claimed: for every size M of the training split
C13_DisjointShards ==
    parallel =>
      \A r1, r2 \in Procs :
        SameEpoch(r1, r2) =>
          Examples(train_loader[r1]) \cap Examples(train_loader[r2]) = {}

\* as the sampler does it: when the number of ranks divides the size of the
\* training split
C13_DisjointWhenDivisible ==
    parallel =>
      \A r1, r2 \in Procs :
        (SameEpoch(r1, r2) /\ Len(train_set(r1)) % nranks = 0) =>
          Examples(train_loader[r1]) \cap Examples(train_loader[r2]) = {}

\* two ranks are in their second epoch of a training split that the number
\* of ranks divides, each with a batch of its own
C13_Witness ==
    /\ parallel
    /\ nranks = 2
    /\ SameEpoch(0, 1)
    /\ Len(train_set(0)) % nranks = 0
    /\ epoch[0] = 2
    /\ Examples(train_loader[0]) # {}
    /\ Examples(train_loader[1]) # {}

(***************************************************************************)
(* C14: a validation pass emits its summary only after every validation    *)
(* batch has been processed.  The step that ends the pass hands the        *)
(* visualizer exactly one valid scalar per loss key, "loss" among them,    *)
(* whose value is the average of that key over all validation batches and  *)
(* whose step is the current iteration; the steps of the pass before it    *)
(* hand over no valid scalar.                                              *)
(***************************************************************************)
NewRecords == SubSeq(visualizer', Len(visualizer) + 1, Len(visualizer'))

ValidScalars(recs) ==
    SelectSeq(recs, LAMBDA x : x.kind = "scalar" /\ x.prefix = "valid")

BatchLoss(r, i, k) ==
    compute_losses(valid_loader[r][i], Forward(valid_loader[r][i]))[k]

C14_SummaryAfterLastBatch ==
    [][\A r \in Ranks :
          /\ (pc[r] = "v_batch" /\ pc'[r] = "run") =>
                LET n == Len(valid_loader[r])
                IN /\ valid_i[r] = n
                   /\ Len(valid_seen[r]) = n
                   /\ NewRecords = ValidScalars(NewRecords)
                   /\ Len(NewRecords) = Len(LossKeys)
                   /\ \E j \in 1..Len(NewRecords) :
                         NewRecords[j].name = "loss"
                   /\ \A i \in 1..Len(LossKeys) :
                         \E j \in 1..Len(NewRecords) :
                           /\ NewRecords[j].name = LossKeys[i]
                           /\ NewRecords[j].step = iteration[r]
                           /\ NewRecords[j].value =
                                 <<SumSeq([b \in 1..n |->
                                             BatchLoss(r, b, LossKeys[i])]),
                                   n>>
          /\ (pc[r] \in ValidPCs /\ pc'[r] = "v_batch") =>
                Len(ValidScalars(NewRecords)) = 0]_vars

\* a pass over the 8 batches of the default split has ended with its
\* scalars
C14_Witness ==
    /\ pc[0] = "run"
    /\ Len(valid_seen[0]) = 8
    /\ Len(visualizer) >= Len(LossKeys)
    /\ visualizer[Len(visualizer)].prefix = "valid"
    /\ visualizer[Len(visualizer)].kind = "scalar"
    /\ visualizer[Len(visualizer)].value[2] = 8

(***************************************************************************)
(* C15 as stated: a validation pass forwards one attention plot per        *)
(* validation example, each under a tag of its own: when the loop over a   *)
(* split of V examples is over, the pass has handed the visualizer V       *)
(* plots with V distinct tags.                                             *)
(***************************************************************************)
PassImages(r) ==
    SelectSeq(visualizer,
              LAMBDA x : x.kind = "image" /\ x.step = iteration[r])

C15_PlotPerExample ==
    \A r \in Ranks :
        (pc[r] = "v_batch" /\ valid_i[r] >= Len(valid_loader[r])) =>
            LET V == Cfg(r).data.valid_size
                imgs == PassImages(r)
            IN /\ Len(imgs) = V
               /\ Cardinality({imgs[j].index : j \in 1..Len(imgs)}) = V

(***************************************************************************)
(* C16: within every call of train_batch the operations happen once each   *)
(* and in this order: fetch the batch, clear the gradients, set training   *)
(* mode, forward, compute the loss bundle, back-propagate, one optimizer   *)
(* step.  The gradients are cleared nowhere but at the second operation,   *)
(* so never between backward and the optimizer step, and the optimizer     *)
(* steps only on the gradients of a backward of the same call.             *)
(***************************************************************************)
TrainBatchOrder ==
    <<"tb_read", "tb_clear", "tb_train", "tb_fwd", "tb_loss", "tb_bwd",
      "tb_step", "tb_log">>

Moves(r, from) == pc[r] = from /\ pc'[r] # from

C16_TrainBatchOrder ==
    /\ [][\A r \in Ranks :
            \* the order of the positions
            /\ \A i \in 1..(Len(TrainBatchOrder) - 1) :
                  Moves(r, TrainBatchOrder[i]) =>
                     \/ pc'[r] = TrainBatchOrder[i + 1]
                     \/ /\ TrainBatchOrder[i] = "tb_bwd"
                        /\ parallel
                        /\ pc'[r] = "tb_sync"
            /\ Moves(r, "tb_sync") => pc'[r] = "tb_step"
            /\ pc'[r] = "tb_read" /\ pc[r] # "tb_read" => pc[r] = "run"
            \* what each position does, and that nothing else does it
            /\ Moves(r, "tb_read") =>
                  /\ iterator'[r] >= 1
                  /\ batch'[r] = train_loader'[r][iterator'[r]]
            /\ iterator'[r] # iterator[r] => pc[r] = "tb_read"
            /\ Moves(r, "tb_clear") => grads'[r] = None
            /\ (grads'[r] = None /\ grads[r] # None) => pc[r] = "tb_clear"
            /\ Moves(r, "tb_train") => training'[r]
            /\ Moves(r, "tb_fwd") =>
                  /\ training[r]
                  /\ outputs'[r] = Some(Forward(batch[r]))
                  /\ buffers'[r] = buffers[r] + 1
            /\ Moves(r, "tb_loss") =>
                  losses'[r] = Some(compute_losses(batch[r], outputs[r][1]))
            /\ (outputs'[r] # outputs[r] \/ losses'[r] # losses[r]) =>
                  pc[r] \in {"tb_fwd", "tb_loss", "v_batch"}
            /\ Moves(r, "tb_bwd") =>
                  /\ grads[r] = None
                  /\ grads'[r] = Some(GradOf(batch[r]))
            /\ (grads'[r] # grads[r] /\ grads'[r] # None) =>
                  pc[r] \in {"tb_bwd", "tb_sync"}
            /\ Moves(r, "tb_step") =>
                  /\ grads[r] # None
                  /\ grads'[r] = grads[r]
                  /\ opt_steps'[r] = opt_steps[r] + 1
                  /\ params'[r] = params[r] + grads[r][1]
            /\ (opt_steps'[r] # opt_steps[r] \/ params'[r] # params[r]) =>
                  pc[r] = "tb_step"]_vars
    \* one optimizer step, one forward and one batch per call
    /\ [](\A r \in Ranks :
            LET calls == iteration[r] +
                         (IF pc[r] \in (TrainBatchPCs \cup {"tb_ret"})
                          THEN 1 ELSE 0)
            IN /\ opt_steps[r] =
                    IF pc[r] \in {"tb_log", "tb_ret"} THEN calls
                    ELSE IF pc[r] \in TrainBatchPCs THEN calls - 1
                    ELSE calls
               /\ Len(TrainLines(r)) =
                    IF pc[r] \in TrainBatchPCs THEN calls - 1 ELSE calls)

\* a worker is through the optimizer step of its second call, which
\* stepped on the gradient of that call's batch
C16_Witness ==
    /\ pc[0] = "tb_log"
    /\ iteration[0] = 1
    /\ opt_steps[0] = 2
    /\ grads[0] # None
    /\ ~parallel
    /\ grads[0] = Some(GradOf(batch[0]))

(***************************************************************************)
(* C17: every call of train_batch, on every rank, writes exactly one log   *)
(* line, which carries the rank, the iteration and every loss value; on    *)
(* rank 0 the same call hands the visualizer exactly one train_loss scalar *)
(* per loss key, each keyed by the iteration the log line reports, and on  *)
(* the other ranks none.                                                   *)
(***************************************************************************)
TrainScalars(recs) ==
    SelectSeq(recs, LAMBDA x : x.kind = "scalar" /\ x.prefix = "train_loss")

LossKeySet == {LossKeys[i] : i \in 1..Len(LossKeys)}

C17_OneLineOneScalarPerKey ==
    /\ [][\A r \in Ranks :
            /\ Moves(r, "tb_log") =>
                  LET line == log'[r][Len(log'[r])]
                      ls == compute_losses(batch[r], Forward(batch[r]))
                  IN /\ log'[r] = Append(log[r], line)
                     /\ line.kind = "train"
                     /\ line.rank = r
                     /\ line.step = iteration[r]
                     /\ DOMAIN line.values = LossKeySet
                     /\ \A k \in LossKeySet : line.values[k] = ls[k]
                     /\ NewRecords = TrainScalars(NewRecords)
                     /\ Len(NewRecords) = IF r = 0 THEN Len(LossKeys) ELSE 0
                     /\ r = 0 =>
                           \A k \in LossKeySet :
                             \E j \in 1..Len(NewRecords) :
                               /\ NewRecords[j].name = k
                               /\ NewRecords[j].value = ls[k]
                               /\ NewRecords[j].step = line.step
                               /\ NewRecords[j].writer = r
            /\ (pc[r] \in TrainBatchPCs /\ pc[r] # "tb_log") =>
                  log'[r] = log[r]
            /\ (\A q \in Ranks : ~Moves(q, "tb_log")) =>
                  Len(TrainScalars(NewRecords)) = 0]_vars
    /\ [](\A r \in Ranks :
            Len(TrainLines(r)) =
               iteration[r] + (IF pc[r] = "tb_ret" THEN 1 ELSE 0))

\* two workers have each returned from their second call of train_batch;
\* the records end with the scalars rank 0 wrote for step 1
C17_Witness ==
    /\ parallel
    /\ pc[0] = "tb_ret"
    /\ pc[1] = "tb_ret"
    /\ Len(TrainLines(0)) = 2
    /\ Len(TrainLines(1)) = 2
    /\ log[1][Len(log[1])].step = 1
    /\ Len(visualizer) >= 2 * Len(LossKeys)
    /\ visualizer[Len(visualizer)].prefix = "train_loss"
    /\ visualizer[Len(visualizer)].step = 1

(***************************************************************************)
(* C18: gradient tracking is off during the whole validation pass and is   *)
(* restored on every way out of it.  It is off exactly while valid runs;   *)
(* when valid returns, or ends part-way because a batch raises, tracking   *)
(* is in the state it had before the call, and the backward of the next    *)
(* train_batch runs with tracking on and leaves a gradient.                *)
(***************************************************************************)
C18_TrackingRestored ==
    /\ [](\A r \in Ranks : grad_enabled[r] <=> pc[r] # "v_batch")
    /\ [][\A r \in Ranks :
            /\ (pc[r] = "valid" /\ pc'[r] = "v_batch") =>
                  grad_enabled[r] /\ ~grad_enabled'[r]
            /\ Moves(r, "v_batch") =>
                  /\ pc'[r] \in {"run", "failed"}
                  /\ grad_enabled'[r]
            /\ Moves(r, "tb_bwd") =>
                  grad_enabled[r] /\ grads'[r] # None]_vars

\* the second batch of a validation pass raised and ended the process,
\* with gradient tracking on again
C18_Witness ==
    /\ pc[0] = "failed"
    /\ valid_i[0] = 1
    /\ Len(valid_seen[0]) = 1
    /\ Len(valid_loader[0]) > 1
    /\ grad_enabled[0]

(***************************************************************************)
(* C19: valid called on a rank other than 0 does nothing.  The call        *)
(* returns in one step that changes nothing but the position of that       *)
(* rank: no forward call, no validation batch read, no log line, no        *)
(* record for the visualizer, no other rank involved, and iteration,       *)
(* model and optimizer state as before.  A rank other than 0 is never      *)
(* inside the loop of valid.                                               *)
(***************************************************************************)
C19_ValidOffRankZero ==
    /\ [][\A r \in Ranks \ {0} :
            Moves(r, "valid") =>
               /\ pc' = [pc EXCEPT ![r] = "run"]
               /\ UNCHANGED <<entry_vars, exp_config, iteration, batch,
                              outputs, losses, log, visualizer>>
               /\ UNCHANGED <<model_vars, loader_vars, valid_vars>>]_vars
    /\ [](\A r \in Ranks \ {0} :
            /\ pc[r] \notin {"v_batch", "failed"}
            /\ valid_i[r] = 0
            /\ valid_seen[r] = << >>
            /\ \A i \in 1..Len(log[r]) : log[r][i].kind # "valid")

\* a rank other than 0 has returned from the call of valid after its
\* first training step
C19_Witness ==
    /\ parallel
    /\ pc[1] = "run"
    /\ iteration[1] = 1
    /\ Cfg(1).training.valid_interval = 1
    /\ opt_steps[1] = 1

====
